---- MODULE Spec2Model ----
(***************************************************************************)
(* EchoFlow: the pipeline graph resolver (FlowChart::get_pipeline_chain)   *)
(* and the sequential execution engine                                     *)
(* (FlowChart::run_pipeline_with_intermediates) of echoflow_app.           *)
(*                                                                         *)
(* SpecResolve runs get_pipeline_chain, one loop iteration per step, on    *)
(* every graph the editor can hold within the bounds.                      *)
(* SpecEngine runs run_pipeline_with_intermediates on every command list   *)
(* within the bounds, the engine and the child process of the current      *)
(* stage interleaving byte by byte over pipes of bounded capacity.         *)
(* Spec runs the editor (PipelineApp): the user's events build the graph   *)
(* and RunPipeline calls the resolver and the engine from the event        *)
(* handler.                                                                *)
(* SpecEdit is an editing session in which the pipeline is never run.      *)
(***************************************************************************)
EXTENDS Integers, Sequences, FiniteSets, TLC

\* ---------------------------------------------------------------- bounds
\* Node identities are drawn from 1..MaxId.
MaxId == 3
\* Longest connection list.
MaxConns == 3
\* The walk of get_pipeline_chain is followed until the chain has this many
\* entries (the Vec itself is unbounded).
MaxChain == 6
\* Longest command list handed to run_pipeline_with_intermediates.
MaxCmds == 3
\* Capacity of a kernel pipe buffer, in bytes (scaled down).
PipeCap == 1
\* Most nodes created, and longest connection list, in an editor session.
MaxAppNodes == 3
MaxAppConns == 2
\* Most user events (button presses, clicks, keys) handled in an editor session.
MaxEvents == 7

VARIABLES
    nodes,          \* FlowChart.nodes: Seq of [id, command, output]
    connections,    \* FlowChart.connections: Seq of [from, to]
    next_id,        \* FlowChart.next_id
    selected_node,  \* FlowChart.selected_node (0 for None)
    connection_start,   \* FlowChart.connection_start (0 for None)
    pipeline_output,    \* PipelineApp.pipeline_output
    events,         \* number of user events handled so far in the session
    apc,            \* the event loop: "ui" between events, "run" inside the
                    \* RunPipeline handler, "lib" when there is no editor
    rpc,            \* get_pipeline_chain: "off" | "idle" | "walk" | "some" | "none"
    incoming,       \* get_pipeline_chain: the in-degree HashMap
    outgoing,       \* get_pipeline_chain: the successor HashMap
    chain,          \* get_pipeline_chain: the Vec being accumulated
    current,        \* get_pipeline_chain: the walk's position
    commands,       \* run_pipeline_with_intermediates: its argument
    epc,            \* engine position: "off" | "idle" | "spawn" | "write" | "wait" | "ok" | "err"
    stage,          \* index of the command being run (1-based)
    intermediate_outputs,   \* the Vec<String> being accumulated
    current_input,  \* the String fed to the next stage
    towrite,        \* write_all: the bytes not yet accepted by the stdin pipe
    stdinOpen,      \* the engine still holds the write end of the child's stdin
    stdinPipe,      \* bytes in the child's stdin pipe
    stdoutPipe,     \* bytes in the child's stdout pipe
    stderrPipe,     \* bytes in the child's stderr pipe (when it is piped)
    outbuf,         \* stdout bytes read so far by output / wait_with_output
    errbuf,         \* stderr bytes read so far by output / wait_with_output
    procs,          \* one record per child process spawned, in spawn order
    result          \* what run_pipeline_with_intermediates returned

graphVars == <<nodes, connections>>
appVars == <<next_id, selected_node, connection_start, pipeline_output, apc, events>>
resolverVars == <<rpc, incoming, outgoing, chain, current>>
engineVars == <<commands, epc, stage, intermediate_outputs, current_input, towrite,
                stdinOpen, stdinPipe, stdoutPipe, stderrPipe, outbuf, errbuf,
                procs, result>>

vars == <<graphVars, appVars, resolverVars, engineVars>>

\* ------------------------------------------------------------ small helpers
Range(s) == {s[i] : i \in DOMAIN s}

NoDup(s) == \A i, j \in DOMAIN s : i /= j => s[i] /= s[j]

SeqsUpTo(S, n) == UNION {[1..k -> S] : k \in 0..n}

EmptyMap == [k \in {} |-> 0]

NodeIds == 1..MaxId

Ids(ns) == {ns[i].id : i \in DOMAIN ns}

Conn(a, b) == [from |-> a, to |-> b]

\* ----------------------------------------------------------- the resolver
\* incoming.insert(node.id, 0) for every node, in list order.
RECURSIVE IncomingInit(_, _)
IncomingInit(ns, m) ==
    IF ns = <<>> THEN m
    ELSE IncomingInit(Tail(ns),
            [k \in DOMAIN m \cup {Head(ns).id} |->
                IF k = Head(ns).id THEN 0 ELSE m[k]])

\* *incoming.entry(conn.to).or_insert(0) += 1 for every connection.
RECURSIVE IncomingCount(_, _)
IncomingCount(cs, m) ==
    IF cs = <<>> THEN m
    ELSE IncomingCount(Tail(cs),
            [k \in DOMAIN m \cup {Head(cs).to} |->
                IF k = Head(cs).to
                THEN (IF k \in DOMAIN m THEN m[k] ELSE 0) + 1
                ELSE m[k]])

\* Variant: the `+= 1` is lost, every entry stays 0.
IncomingMapNoCount(ns, cs) ==
    IncomingInit(ns \o [i \in DOMAIN cs |-> [id |-> cs[i].to]], EmptyMap)

\* Variant: the in-degree is counted at conn.from instead of conn.to.
IncomingMapBySource(ns, cs) ==
    IncomingCount([i \in DOMAIN cs |-> [from |-> cs[i].to, to |-> cs[i].from]],
                  IncomingInit(ns, EmptyMap))

IncomingMap(ns, cs) == IncomingCount(cs, IncomingInit(ns, EmptyMap))

\* outgoing.insert(conn.from, conn.to) for every connection: a later
\* connection with the same source replaces the earlier entry.
RECURSIVE OutgoingInsert(_, _)
OutgoingInsert(cs, m) ==
    IF cs = <<>> THEN m
    ELSE OutgoingInsert(Tail(cs),
            [k \in DOMAIN m \cup {Head(cs).from} |->
                IF k = Head(cs).from THEN Head(cs).to ELSE m[k]])

\* Variant: an earlier connection with the same source is kept.
OutgoingMapFirstWins(cs) ==
    OutgoingInsert([i \in DOMAIN cs |-> cs[Len(cs) + 1 - i]], EmptyMap)

OutgoingMap(cs) == OutgoingInsert(cs, EmptyMap)

\* Variant: the first node is taken whatever its in-degree.
FindStartAnyDegree(ns, inc) == IF ns = <<>> THEN 0 ELSE 1

\* Variant: the last node of in-degree zero is taken instead of the first.
FindStartLast(ns, inc) ==
    LET hits == {i \in DOMAIN ns : ns[i].id \in DOMAIN inc /\ inc[ns[i].id] = 0}
    IN  IF hits = {} THEN 0 ELSE CHOOSE i \in hits : \A j \in hits : i >= j

\* Variant: the start is looked for in the order a hash map would yield the
\* identities (here by id * 2 modulo MaxId + 2), not in list order.
FindStartHashOrder(ns, inc) ==
    LET hits == {i \in DOMAIN ns : ns[i].id \in DOMAIN inc /\ inc[ns[i].id] = 0}
        h(i) == (ns[i].id * 2) % (MaxId + 2)
    IN  IF hits = {} THEN 0 ELSE CHOOSE i \in hits : \A j \in hits : h(i) <= h(j)

\* self.nodes.iter().find(|n| incoming.get(&n.id) == Some(&0)): the index of
\* the first such node, 0 when there is none (the `?` returns None).
FindStart(ns, inc) ==
    LET hits == {i \in DOMAIN ns : ns[i].id \in DOMAIN inc /\ inc[ns[i].id] = 0}
    IN  IF hits = {} THEN 0 ELSE CHOOSE i \in hits : \A j \in hits : i <= j

\* Lines 84-99: build both maps, pick the start node, start the chain.
ResolveBegin ==
    /\ rpc = "idle"
    /\ LET inc == IncomingMap(nodes, connections)
           out == OutgoingMap(connections)
           s   == FindStart(nodes, inc)
       IN  /\ incoming' = inc
           /\ outgoing' = out
           /\ IF s = 0
              THEN /\ rpc' = "none"
                   /\ UNCHANGED <<chain, current>>
              ELSE /\ rpc' = "walk"
                   /\ chain' = <<nodes[s].id>>
                   /\ current' = nodes[s].id
    /\ UNCHANGED <<graphVars, appVars, engineVars>>

\* Variant: the node left is pushed instead of the node entered.
WalkStepPushesCurrent ==
    /\ rpc = "walk"
    /\ current \in DOMAIN outgoing
    /\ Len(chain) < MaxChain
    /\ chain' = Append(chain, current)
    /\ current' = outgoing[current]
    /\ UNCHANGED <<graphVars, appVars, engineVars, rpc, incoming, outgoing>>

\* Variant: the walk removes from the graph every edge it follows.
WalkStepConsumesEdge ==
    /\ rpc = "walk"
    /\ current \in DOMAIN outgoing
    /\ Len(chain) < MaxChain
    /\ chain' = Append(chain, outgoing[current])
    /\ current' = outgoing[current]
    /\ LET Kept(c) == c /= Conn(current, outgoing[current])
       IN  connections' = SelectSeq(connections, Kept)
    /\ UNCHANGED <<nodes, appVars, engineVars, rpc, incoming, outgoing>>

\* Lines 100-103: one iteration of `while let Some(&next) = outgoing.get(&current)`.
WalkStep ==
    /\ rpc = "walk"
    /\ current \in DOMAIN outgoing
    /\ Len(chain) < MaxChain
    /\ chain' = Append(chain, outgoing[current])
    /\ current' = outgoing[current]
    /\ UNCHANGED <<graphVars, appVars, engineVars, rpc, incoming, outgoing>>

\* Line 104: the loop's condition fails and Some(chain) is returned.
WalkEnd ==
    /\ rpc = "walk"
    /\ current \notin DOMAIN outgoing
    /\ rpc' = "some"
    /\ UNCHANGED <<graphVars, appVars, engineVars, incoming, outgoing, chain, current>>

\* ------------------------------------------------------ text and its bytes
\* A String is a sequence of code points, a byte buffer a sequence of 0..255.
Replacement == 65533

IsContinuation(b) == b \in 128..191

\* String::from_utf8_lossy: every maximal invalid part becomes U+FFFD.  The
\* one-, two- and three-byte forms are decoded (the lead bytes 0xE0 and 0xED,
\* whose second byte is restricted, and the four-byte forms do not occur
\* among the bytes of the model).
RECURSIVE FromUtf8Lossy(_)
FromUtf8Lossy(bs) ==
    IF bs = <<>> THEN <<>>
    ELSE LET b == Head(bs)
             n == Len(bs)
         IN  IF b < 128 THEN <<b>> \o FromUtf8Lossy(Tail(bs))
             ELSE IF b \in 194..223 /\ n >= 2 /\ IsContinuation(bs[2])
             THEN <<(b - 192) * 64 + (bs[2] - 128)>> \o FromUtf8Lossy(SubSeq(bs, 3, n))
             ELSE IF b \in (225..236) \cup (238..239) /\ n >= 2 /\ IsContinuation(bs[2])
             THEN IF n >= 3 /\ IsContinuation(bs[3])
                  THEN <<(b - 224) * 4096 + (bs[2] - 128) * 64 + (bs[3] - 128)>>
                           \o FromUtf8Lossy(SubSeq(bs, 4, n))
                  ELSE <<Replacement>> \o FromUtf8Lossy(SubSeq(bs, 3, n))
             ELSE <<Replacement>> \o FromUtf8Lossy(Tail(bs))

\* String::as_bytes: the UTF-8 encoding of the code points (below 0x10000).
RECURSIVE AsBytes(_)
AsBytes(str) ==
    IF str = <<>> THEN <<>>
    ELSE LET c == Head(str)
         IN  (IF c < 128 THEN <<c>>
              ELSE IF c < 2048 THEN <<192 + (c \div 64), 128 + (c % 64)>>
              ELSE <<224 + (c \div 4096), 128 + ((c \div 64) % 64), 128 + (c % 64)>>)
             \o AsBytes(Tail(str))

\* ------------------------------------------------------ the child processes
\* What `sh -c <command>` does, for the commands of the model:
\*   reads  - it copies its standard input to its standard output until end
\*            of input (sort, cat); otherwise it never reads its input
\*   out    - the bytes it then writes to standard output
\*   err    - the bytes it writes to standard error before exiting
\*   exit   - its exit code
\* 97 is the letter a; 255 is a byte that occurs in no UTF-8 text.  Flood
\* writes more than a stdin pipe and a stdout pipe hold together.
Flood == [k \in 1..(2 * PipeCap + 1) |-> 97]

Program(cmd) ==
    CASE cmd = "Echo"  -> [reads |-> FALSE, out |-> <<97>>,  err |-> <<>>, exit |-> 0]
      [] cmd = "Flood" -> [reads |-> FALSE, out |-> Flood,   err |-> <<>>, exit |-> 0]
      [] cmd = "Raw"   -> [reads |-> FALSE, out |-> <<255>>, err |-> <<>>, exit |-> 0]
      [] cmd = "Cat"   -> [reads |-> TRUE,  out |-> <<>>,    err |-> <<>>, exit |-> 0]
      [] cmd = "Fail"  -> [reads |-> FALSE, out |-> <<97>>,  err |-> <<101>>, exit |-> 1]

CommandNames == {"Echo", "Flood", "Raw", "Cat", "Fail"}

\* ------------------------------------------------------------- the engine
Ok(outs) ==
    [tag |-> "Ok", outputs |-> outs, kind |-> "none", text |-> <<>>, cmd |-> "",
     oserr |-> ""]

\* An Err(String): `kind` tells which message it is, `text` is the message
\* when it is a child's standard-error text, `cmd` the command it names.
Err(k, t, c) ==
    [tag |-> "Err", outputs |-> <<>>, kind |-> k, text |-> t, cmd |-> c,
     oserr |-> ""]

\* The io::Error values the operating system may answer with.
OsErrors == {"ENOENT", "EAGAIN"}

\* Variant: the message leaves the command out.
FailedToRunUnnamed(c, e) == [Err("spawn", <<>>, "") EXCEPT !.oserr = e]

\* format!("Failed to run command '{}': {}", command, e)
FailedToRun(c, e) == [Err("spawn", <<>>, c) EXCEPT !.oserr = e]

\* format!("Error waiting on command '{}': {}", command, e)
ErrorWaiting(c, e) == [Err("wait", <<>>, c) EXCEPT !.oserr = e]

\* format!("Failed to write to stdin: {}", e)
FailedToWrite(e) == [Err("stdin", <<>>, "") EXCEPT !.oserr = e]

NoResult ==
    [tag |-> "none", outputs |-> <<>>, kind |-> "none", text |-> <<>>, cmd |-> "",
     oserr |-> ""]

Child == procs[Len(procs)]

ChildRunning == procs /= <<>> /\ epc \in {"write", "wait"} /\ Child.state = "running"

SetChild(f) == [procs EXCEPT ![Len(procs)] = f]

\* Command::output (lines 119-122) captures stdout and stderr and gives the
\* child no stdin; the stages of the loop (lines 133-138) pipe stdin and
\* stdout only, so their stderr is the engine's own.
StderrPiped(st) == st = 1
StdinPiped(st) == st > 1

\* Variant: an unsuccessful exit status is not noticed.
StatusSuccessAlways(p) == TRUE

\* output.status.success()
StatusSuccess(p) == p.exit = 0

\* Variant: an empty command list is answered with a failure.
RunBeginEmptyFails ==
    /\ epc = "idle"
    /\ IF commands = <<>>
       THEN /\ epc' = "err"
            /\ result' = Err("stdin", <<>>, "")
            /\ UNCHANGED stage
       ELSE /\ epc' = "spawn"
            /\ stage' = 1
            /\ UNCHANGED result
    /\ UNCHANGED <<graphVars, appVars, resolverVars, commands, intermediate_outputs,
                   current_input, towrite, stdinOpen, stdinPipe, stdoutPipe,
                   stderrPipe, outbuf, errbuf, procs>>

\* Lines 113-116.
RunBegin ==
    /\ epc = "idle"
    /\ IF commands = <<>>
       THEN /\ epc' = "ok"
            /\ result' = Ok(<<>>)
            /\ UNCHANGED stage
       ELSE /\ epc' = "spawn"
            /\ stage' = 1
            /\ UNCHANGED result
    /\ UNCHANGED <<graphVars, appVars, resolverVars, commands, intermediate_outputs,
                   current_input, towrite, stdinOpen, stdinPipe, stdoutPipe,
                   stderrPipe, outbuf, errbuf, procs>>

\* Lines 119-122 and 133-138: the shell is started for commands[stage].
EngineSpawn ==
    /\ epc = "spawn"
    /\ procs' = Append(procs,
            [cmd |-> commands[stage], state |-> "running", reaped |-> FALSE,
             todo |-> Program(commands[stage]).out,
             errtodo |-> Program(commands[stage]).err,
             exit |-> Program(commands[stage]).exit,
             out |-> <<>>, err |-> <<>>, fed |-> <<>>])
    /\ stdinPipe' = <<>>
    /\ stdoutPipe' = <<>>
    /\ stderrPipe' = <<>>
    /\ outbuf' = <<>>
    /\ errbuf' = <<>>
    /\ IF StdinPiped(stage)
       THEN /\ stdinOpen' = TRUE
            /\ towrite' = AsBytes(current_input)
            /\ epc' = "write"
       ELSE /\ stdinOpen' = FALSE
            /\ towrite' = <<>>
            /\ epc' = "wait"
    /\ UNCHANGED <<graphVars, appVars, resolverVars, commands, stage, intermediate_outputs,
                   current_input, result>>

\* Lines 123 and 139: the operating system refuses to start the shell.
EngineSpawnFail ==
    /\ epc = "spawn"
    /\ epc' = "err"
    /\ \E e \in OsErrors : result' = FailedToRun(commands[stage], e)
    /\ UNCHANGED <<graphVars, appVars, resolverVars, commands, stage, intermediate_outputs,
                   current_input, towrite, stdinOpen, stdinPipe, stdoutPipe,
                   stderrPipe, outbuf, errbuf, procs>>

\* Lines 143-144: write_all blocks until the pipe takes the next byte.
EngineWrite ==
    /\ epc = "write"
    /\ towrite /= <<>>
    /\ Child.state = "running"
    /\ Len(stdinPipe) < PipeCap
    /\ stdinPipe' = Append(stdinPipe, Head(towrite))
    /\ towrite' = Tail(towrite)
    /\ procs' = SetChild([Child EXCEPT !.fed = Append(@, Head(towrite))])
    /\ UNCHANGED <<graphVars, appVars, resolverVars, commands, epc, stage,
                   intermediate_outputs, current_input, stdinOpen, stdoutPipe,
                   stderrPipe, outbuf, errbuf, result>>

\* Line 145: the child has gone and the write fails (broken pipe); the `?`
\* returns, and the Child is dropped without being waited for.
EngineWriteFail ==
    /\ epc = "write"
    /\ towrite /= <<>>
    /\ Child.state = "exited"
    /\ epc' = "err"
    /\ result' = FailedToWrite("EPIPE")
    /\ stdinOpen' = FALSE
    /\ UNCHANGED <<graphVars, appVars, resolverVars, commands, stage, intermediate_outputs,
                   current_input, towrite, stdinPipe, stdoutPipe, stderrPipe,
                   outbuf, errbuf, procs>>

\* Variant: the stdin handle is kept while the child is waited for.
EngineCloseStdinKeepsOpen ==
    /\ epc = "write"
    /\ towrite = <<>>
    /\ epc' = "wait"
    /\ UNCHANGED <<graphVars, appVars, resolverVars, commands, stage, intermediate_outputs,
                   current_input, towrite, stdinOpen, stdinPipe, stdoutPipe, stderrPipe,
                   outbuf, errbuf, procs, result>>

\* Variant: the next command is started as soon as the input is written,
\* the child of this stage being left to run.
EngineCloseStdinSpawnsNext ==
    /\ epc = "write"
    /\ towrite = <<>>
    /\ stdinOpen' = FALSE
    /\ IF stage < Len(commands)
       THEN epc' = "spawn" /\ stage' = stage + 1
       ELSE epc' = "wait" /\ stage' = stage
    /\ UNCHANGED <<graphVars, appVars, resolverVars, commands, intermediate_outputs,
                   current_input, towrite, stdinPipe, stdoutPipe, stderrPipe,
                   outbuf, errbuf, procs, result>>

\* Lines 146-149: write_all has returned; wait_with_output first drops the
\* stdin handle, which closes the pipe's write end.
EngineCloseStdin ==
    /\ epc = "write"
    /\ towrite = <<>>
    /\ stdinOpen' = FALSE
    /\ epc' = "wait"
    /\ UNCHANGED <<graphVars, appVars, resolverVars, commands, stage, intermediate_outputs,
                   current_input, towrite, stdinPipe, stdoutPipe, stderrPipe,
                   outbuf, errbuf, procs, result>>

\* output / wait_with_output read the child's stdout to end of file.
EngineReadStdout ==
    /\ epc = "wait"
    /\ stdoutPipe /= <<>>
    /\ outbuf' = Append(outbuf, Head(stdoutPipe))
    /\ stdoutPipe' = Tail(stdoutPipe)
    /\ UNCHANGED <<graphVars, appVars, resolverVars, commands, epc, stage,
                   intermediate_outputs, current_input, towrite, stdinOpen,
                   stdinPipe, stderrPipe, errbuf, procs, result>>

\* output reads the child's stderr as well, both pipes being polled together.
EngineReadStderr ==
    /\ epc = "wait"
    /\ StderrPiped(stage)
    /\ stderrPipe /= <<>>
    /\ errbuf' = Append(errbuf, Head(stderrPipe))
    /\ stderrPipe' = Tail(stderrPipe)
    /\ UNCHANGED <<graphVars, appVars, resolverVars, commands, epc, stage,
                   intermediate_outputs, current_input, towrite, stdinOpen,
                   stdinPipe, stdoutPipe, outbuf, procs, result>>

\* Variant: the child is waited for as soon as it has exited, whatever is
\* still in its pipes.
AtEndOfOutputOnExit == epc = "wait" /\ Child.state = "exited"

\* Both reads have met end of file: the child has exited and the pipes are empty.
AtEndOfOutput ==
    /\ epc = "wait"
    /\ Child.state = "exited"
    /\ stdoutPipe = <<>>
    /\ stderrPipe = <<>>

\* Variant: after a successful stage the same command is started again.
EngineReapRepeatsStage ==
    /\ AtEndOfOutput
    /\ procs' = SetChild([Child EXCEPT !.reaped = TRUE])
    /\ stdoutPipe' = <<>>
    /\ stderrPipe' = <<>>
    /\ IF ~StatusSuccess(Child)
       THEN /\ epc' = "err"
            /\ result' = Err("status", FromUtf8Lossy(errbuf), "")
            /\ UNCHANGED <<stage, intermediate_outputs, current_input>>
       ELSE LET out_str == FromUtf8Lossy(outbuf)
            IN  /\ intermediate_outputs' = Append(intermediate_outputs, out_str)
                /\ current_input' = out_str
                /\ UNCHANGED stage
                /\ IF stage = Len(commands)
                   THEN /\ epc' = "ok"
                        /\ result' = Ok(Append(intermediate_outputs, out_str))
                   ELSE /\ epc' = "spawn"
                        /\ UNCHANGED result
    /\ UNCHANGED <<graphVars, appVars, resolverVars, commands, towrite, stdinOpen,
                   stdinPipe, outbuf, errbuf>>

\* Lines 124-129 and 148-156: the child is waited for, its status examined,
\* its output decoded, pushed and made the next stage's input; after the last
\* command line 159 returns Ok(intermediate_outputs).
EngineReap ==
    /\ AtEndOfOutput
    /\ procs' = SetChild([Child EXCEPT !.reaped = TRUE])
    /\ stdoutPipe' = <<>>
    /\ stderrPipe' = <<>>
    /\ IF ~StatusSuccess(Child)
       THEN /\ epc' = "err"
            /\ result' = Err("status", FromUtf8Lossy(errbuf), "")
            /\ UNCHANGED <<stage, intermediate_outputs, current_input>>
       ELSE LET out_str == FromUtf8Lossy(outbuf)
            IN  /\ intermediate_outputs' = Append(intermediate_outputs, out_str)
                /\ current_input' = out_str
                /\ IF stage = Len(commands)
                   THEN /\ epc' = "ok"
                        /\ result' = Ok(Append(intermediate_outputs, out_str))
                        /\ UNCHANGED stage
                   ELSE /\ epc' = "spawn"
                        /\ stage' = stage + 1
                        /\ UNCHANGED result
    /\ UNCHANGED <<graphVars, appVars, resolverVars, commands, towrite, stdinOpen,
                   stdinPipe, outbuf, errbuf>>

\* Lines 123 and 150: the operating system fails to deliver the exit status.
EngineWaitFail ==
    /\ AtEndOfOutput
    /\ epc' = "err"
    /\ \E e \in OsErrors :
          result' = IF stage = 1 THEN FailedToRun(commands[stage], e)
                                 ELSE ErrorWaiting(commands[stage], e)
    /\ UNCHANGED <<graphVars, appVars, resolverVars, commands, stage, intermediate_outputs,
                   current_input, towrite, stdinOpen, stdinPipe, stdoutPipe,
                   stderrPipe, outbuf, errbuf, procs>>

\* The child copies one byte of its input to its output; it blocks while the
\* stdout pipe is full.
ChildCopy ==
    /\ ChildRunning
    /\ Program(Child.cmd).reads
    /\ stdinPipe /= <<>>
    /\ Len(stdoutPipe) < PipeCap
    /\ stdoutPipe' = Append(stdoutPipe, Head(stdinPipe))
    /\ stdinPipe' = Tail(stdinPipe)
    /\ procs' = SetChild([Child EXCEPT !.out = Append(@, Head(stdinPipe))])
    /\ UNCHANGED <<graphVars, appVars, resolverVars, commands, epc, stage,
                   intermediate_outputs, current_input, towrite, stdinOpen,
                   stderrPipe, outbuf, errbuf, result>>

\* The child has met the end of its input (or never reads it).
ChildInputDone ==
    Program(Child.cmd).reads => (stdinPipe = <<>> /\ ~stdinOpen)

\* The child writes one byte of its own output.
ChildEmit ==
    /\ ChildRunning
    /\ ChildInputDone
    /\ Child.todo /= <<>>
    /\ Len(stdoutPipe) < PipeCap
    /\ stdoutPipe' = Append(stdoutPipe, Head(Child.todo))
    /\ procs' = SetChild([Child EXCEPT !.out = Append(@, Head(Child.todo)),
                                       !.todo = Tail(@)])
    /\ UNCHANGED <<graphVars, appVars, resolverVars, commands, epc, stage,
                   intermediate_outputs, current_input, towrite, stdinOpen,
                   stdinPipe, stderrPipe, outbuf, errbuf, result>>

\* The child writes one byte to its standard error: into the pipe when the
\* engine piped it, to the engine's own stderr otherwise.
ChildErr ==
    /\ ChildRunning
    /\ ChildInputDone
    /\ Child.todo = <<>>
    /\ Child.errtodo /= <<>>
    /\ IF StderrPiped(stage)
       THEN /\ Len(stderrPipe) < PipeCap
            /\ stderrPipe' = Append(stderrPipe, Head(Child.errtodo))
       ELSE UNCHANGED stderrPipe
    /\ procs' = SetChild([Child EXCEPT !.err = Append(@, Head(Child.errtodo)),
                                       !.errtodo = Tail(@)])
    /\ UNCHANGED <<graphVars, appVars, resolverVars, commands, epc, stage,
                   intermediate_outputs, current_input, towrite, stdinOpen,
                   stdinPipe, stdoutPipe, outbuf, errbuf, result>>

\* The child exits; what it left unread in its stdin pipe is discarded.
ChildExit ==
    /\ ChildRunning
    /\ ChildInputDone
    /\ Child.todo = <<>>
    /\ Child.errtodo = <<>>
    /\ procs' = SetChild([Child EXCEPT !.state = "exited"])
    /\ stdinPipe' = <<>>
    /\ UNCHANGED <<graphVars, appVars, resolverVars, commands, epc, stage,
                   intermediate_outputs, current_input, towrite, stdinOpen,
                   stdoutPipe, stderrPipe, outbuf, errbuf, result>>

EngineIdle ==
    /\ epc = "idle"
    /\ stage = 0
    /\ intermediate_outputs = <<>>
    /\ current_input = <<>>
    /\ towrite = <<>>
    /\ stdinOpen = FALSE
    /\ stdinPipe = <<>>
    /\ stdoutPipe = <<>>
    /\ stderrPipe = <<>>
    /\ outbuf = <<>>
    /\ errbuf = <<>>
    /\ procs = <<>>
    /\ result = NoResult

\* The graphs the editor can hold: identities are issued in increasing order
\* (add_node), so the node list is ascending; a connection joins two distinct
\* existing nodes (draw); the same pair may be connected more than once.
AscendingIdSeqs ==
    {s \in SeqsUpTo(NodeIds, MaxId) : \A i, j \in DOMAIN s : i < j => s[i] < s[j]}

NewNode(i) == [id |-> i, command |-> "Echo", output |-> <<>>]

EditorConns(ids) ==
    SeqsUpTo({Conn(a, b) : a \in ids, b \in ids} \ {Conn(a, a) : a \in ids}, MaxConns)

ResolverIdle ==
    /\ rpc = "idle"
    /\ incoming = EmptyMap
    /\ outgoing = EmptyMap
    /\ chain = <<>>
    /\ current = 0

\* The resolver or the engine called on its own, outside an editor session.
NoEditor ==
    /\ next_id = 1
    /\ selected_node = 0
    /\ connection_start = 0
    /\ pipeline_output = [kind |-> "text", text |-> <<>>, cmd |-> "", oserr |-> ""]
    /\ apc = "lib"
    /\ events = 0

InitResolve ==
    /\ NoEditor
    /\ \E s \in AscendingIdSeqs :
        /\ nodes = [i \in DOMAIN s |-> NewNode(s[i])]
        /\ connections \in EditorConns(Range(s))
    /\ ResolverIdle
    /\ commands = <<>>
    /\ EngineIdle

NextResolve == ResolveBegin \/ WalkStep \/ WalkEnd

SpecResolve == InitResolve /\ [][NextResolve]_vars

\* Any edge list over the identities: duplicates, self-loops, and edges that
\* name an identity no node of the list has.
AnyConns == SeqsUpTo({Conn(a, b) : a \in NodeIds, b \in NodeIds}, MaxConns)

\* get_pipeline_chain called on a FlowChart whose public node and connection
\* lists were filled by other code than the editor.
InitPartial ==
    /\ NoEditor
    /\ \E s \in AscendingIdSeqs : nodes = [i \in DOMAIN s |-> NewNode(s[i])]
    /\ connections \in AnyConns
    /\ ResolverIdle
    /\ commands = <<>>
    /\ EngineIdle

SpecPartial == InitPartial /\ [][NextResolve]_vars

InitEngine ==
    /\ NoEditor
    /\ nodes = <<>>
    /\ connections = <<>>
    /\ ResolverIdle
    /\ commands \in SeqsUpTo(CommandNames, MaxCmds)
    /\ EngineIdle

NextEngine ==
    \/ RunBegin
    \/ EngineSpawn
    \/ EngineSpawnFail
    \/ EngineWrite
    \/ EngineWriteFail
    \/ EngineCloseStdin
    \/ EngineReadStdout
    \/ EngineReadStderr
    \/ EngineReap
    \/ EngineWaitFail
    \/ ChildCopy
    \/ ChildEmit
    \/ ChildErr
    \/ ChildExit

SpecEngine == InitEngine /\ [][NextEngine]_vars

\* ------------------------------------------------------------- the editor
\* A String shown in the final-output panel: literal text, or one of the
\* engine's and the handler's fixed messages.
Text(t) == [kind |-> "text", text |-> t, cmd |-> "", oserr |-> ""]

\* "No valid pipeline chain found."
NoChainFound == [kind |-> "nochain", text |-> <<>>, cmd |-> "", oserr |-> ""]

\* The String inside an Err: a child's standard-error text is plain text.
ErrString(res) ==
    IF res.kind = "status" THEN Text(res.text)
    ELSE [kind |-> res.kind, text |-> <<>>, cmd |-> res.cmd, oserr |-> res.oserr]

\* The commands of the toolbox buttons (echo Hello World, sort).
Presets == {"Cat"}

\* The commands typed into the side panel's command field.
Typed == {"Fail"}

\* The event loop is between two events: no handler is running.
UiFree == apc = "ui"

\* One more user event is taken from the event loop.
TakeEvent ==
    /\ events < MaxEvents
    /\ events' = events + 1

NodeIndex(ns, id) ==
    LET hits == {i \in DOMAIN ns : ns[i].id = id}
    IN  IF hits = {} THEN 0 ELSE CHOOSE i \in hits : \A j \in hits : i <= j

\* Variant: the identity counter is not advanced.
PushNodeSameId(cmd) ==
    /\ nodes' = Append(nodes, [id |-> next_id, command |-> cmd, output |-> <<>>])
    /\ next_id' = next_id

\* add_node / add_node_with_command: the node takes next_id, which advances.
PushNode(cmd) ==
    /\ nodes' = Append(nodes, [id |-> next_id, command |-> cmd, output |-> <<>>])
    /\ next_id' = next_id + 1

\* FlowChartCommand::AddNode (the Add Node button, the N key).
AddNode ==
    /\ UiFree
    /\ TakeEvent
    /\ next_id <= MaxAppNodes
    /\ PushNode("Echo")
    /\ UNCHANGED <<connections, selected_node, connection_start, pipeline_output,
                   apc, resolverVars, engineVars>>

\* A toolbox button: add_node_with_command(preset).
AddPreset ==
    /\ UiFree
    /\ TakeEvent
    /\ next_id <= MaxAppNodes
    /\ \E cmd \in Presets : PushNode(cmd)
    /\ UNCHANGED <<connections, selected_node, connection_start, pipeline_output,
                   apc, resolverVars, engineVars>>

\* draw, lines 194-196: a click on a node selects it.
ClickNode ==
    /\ UiFree
    /\ TakeEvent
    /\ \E i \in DOMAIN nodes : selected_node' = nodes[i].id
    /\ UNCHANGED <<graphVars, next_id, connection_start, pipeline_output, apc,
                   resolverVars, engineVars>>

\* Variant: the second handle clicked ends the connection on whatever node
\* it belongs to, the starting node included.
HandleClickedSelfLoop(id) ==
    IF connection_start = 0
    THEN /\ connection_start' = id
         /\ UNCHANGED connections
    ELSE /\ Len(connections) < MaxAppConns
         /\ connections' = Append(connections, Conn(connection_start, id))
         /\ connection_start' = 0

\* draw, lines 211-223: the first handle clicked starts a connection, the
\* second ends it; ending it on the starting node only cancels it.
HandleClicked(id) ==
    IF connection_start = 0
    THEN /\ connection_start' = id
         /\ UNCHANGED connections
    ELSE /\ connection_start /= id => Len(connections) < MaxAppConns
         /\ connections' = IF connection_start /= id
                           THEN Append(connections, Conn(connection_start, id))
                           ELSE connections
         /\ connection_start' = 0

ClickHandle ==
    /\ UiFree
    /\ TakeEvent
    /\ \E i \in DOMAIN nodes : HandleClicked(nodes[i].id)
    /\ UNCHANGED <<nodes, next_id, selected_node, pipeline_output, apc,
                   resolverVars, engineVars>>

\* update, lines 8-10: Escape cancels the pending connection.
PressEscape ==
    /\ UiFree
    /\ TakeEvent
    /\ connection_start' = 0
    /\ UNCHANGED <<graphVars, next_id, selected_node, pipeline_output, apc,
                   resolverVars, engineVars>>

\* draw_side_panel, line 116: the selected node's command is edited.
EditCommand ==
    /\ UiFree
    /\ TakeEvent
    /\ NodeIndex(nodes, selected_node) /= 0
    /\ \E cmd \in Typed :
          nodes' = [nodes EXCEPT ![NodeIndex(nodes, selected_node)].command = cmd]
    /\ UNCHANGED <<connections, next_id, selected_node, connection_start,
                   pipeline_output, apc, resolverVars, engineVars>>

\* Variant: the connections of the deleted node are kept.
ConnectionsAfterDeleteKept(cs, id) == cs

\* connections.retain(|conn| conn.from != selected_id && conn.to != selected_id)
ConnectionsAfterDelete(cs, id) ==
    LET Keep(c) == c.from /= id /\ c.to /= id IN SelectSeq(cs, Keep)

\* Variant: the pending connection is kept when its start node is deleted.
DeleteKeepsPendingConnection ==
    /\ UiFree
    /\ TakeEvent
    /\ IF selected_node /= 0
       THEN /\ LET Keep(n) == n.id /= selected_node IN nodes' = SelectSeq(nodes, Keep)
            /\ connections' = ConnectionsAfterDelete(connections, selected_node)
            /\ selected_node' = 0
            /\ UNCHANGED connection_start
       ELSE UNCHANGED <<graphVars, selected_node, connection_start>>
    /\ UNCHANGED <<next_id, pipeline_output, apc, resolverVars, engineVars>>

\* FlowChartCommand::DeleteSelectedNode (app.rs lines 50-61).
DeleteSelectedNode ==
    /\ UiFree
    /\ TakeEvent
    /\ IF selected_node /= 0
       THEN /\ LET Keep(n) == n.id /= selected_node IN nodes' = SelectSeq(nodes, Keep)
            /\ connections' = ConnectionsAfterDelete(connections, selected_node)
            /\ connection_start' =
                  IF connection_start = selected_node THEN 0 ELSE connection_start
            /\ selected_node' = 0
       ELSE UNCHANGED <<graphVars, selected_node, connection_start>>
    /\ UNCHANGED <<next_id, pipeline_output, apc, resolverVars, engineVars>>

ResolverOff ==
    /\ rpc = "off"
    /\ incoming = EmptyMap
    /\ outgoing = EmptyMap
    /\ chain = <<>>
    /\ current = 0

EngineOff ==
    /\ epc = "off"
    /\ commands = <<>>
    /\ stage = 0
    /\ intermediate_outputs = <<>>
    /\ current_input = <<>>
    /\ towrite = <<>>
    /\ stdinOpen = FALSE
    /\ stdinPipe = <<>>
    /\ stdoutPipe = <<>>
    /\ stderrPipe = <<>>
    /\ outbuf = <<>>
    /\ errbuf = <<>>
    /\ procs = <<>>
    /\ result = NoResult

\* The handler returns: the locals of both calls are gone.
HandlerReturns ==
    /\ apc' = "ui"
    /\ rpc' = "off"
    /\ incoming' = EmptyMap
    /\ outgoing' = EmptyMap
    /\ chain' = <<>>
    /\ current' = 0
    /\ epc' = "off"
    /\ commands' = <<>>
    /\ stage' = 0
    /\ intermediate_outputs' = <<>>
    /\ current_input' = <<>>
    /\ towrite' = <<>>
    /\ stdinOpen' = FALSE
    /\ stdinPipe' = <<>>
    /\ stdoutPipe' = <<>>
    /\ stderrPipe' = <<>>
    /\ outbuf' = <<>>
    /\ errbuf' = <<>>
    /\ procs' = <<>>
    /\ result' = NoResult

\* FlowChartCommand::RunPipeline (the Run Pipeline button, the R key): the
\* handler is entered on the event loop's own thread and calls
\* get_pipeline_chain (app.rs line 27).
RunPipeline ==
    /\ UiFree
    /\ TakeEvent
    /\ apc' = "run"
    /\ rpc' = "idle"
    /\ UNCHANGED <<graphVars, next_id, selected_node, connection_start,
                   pipeline_output, incoming, outgoing, chain, current, engineVars>>

\* Variant: the commands of all the nodes are run, chained or not.
ChainCommandsAllNodes(ch, ns) == [i \in DOMAIN ns |-> ns[i].command]

\* Variant: a failed resolution leaves the panel as it was.
RunNoChainSilent ==
    /\ apc = "run"
    /\ rpc = "none"
    /\ HandlerReturns
    /\ UNCHANGED <<graphVars, next_id, selected_node, connection_start, events,
                   pipeline_output>>

\* app.rs lines 46-48: no chain.
RunNoChain ==
    /\ apc = "run"
    /\ rpc = "none"
    /\ pipeline_output' = NoChainFound
    /\ HandlerReturns
    /\ UNCHANGED <<graphVars, next_id, selected_node, connection_start, events>>

\* app.rs lines 28-32: the commands of the chain's nodes, a missing node skipped.
RECURSIVE ChainCommands(_, _)
ChainCommands(ch, ns) ==
    IF ch = <<>> THEN <<>>
    ELSE (IF NodeIndex(ns, Head(ch)) = 0 THEN <<>>
          ELSE <<ns[NodeIndex(ns, Head(ch))].command>>)
         \o ChainCommands(Tail(ch), ns)

\* app.rs line 33: run_pipeline_with_intermediates(&commands) is called.
RunCollect ==
    /\ apc = "run"
    /\ rpc = "some"
    /\ epc = "off"
    /\ commands' = ChainCommands(chain, nodes)
    /\ epc' = "idle"
    /\ UNCHANGED <<graphVars, appVars, resolverVars, stage, intermediate_outputs,
                   current_input, towrite, stdinOpen, stdinPipe, stdoutPipe,
                   stderrPipe, outbuf, errbuf, procs, result>>

\* Variant: every chained node is given the last stage's output.
StoreOutputsLast(ns, ch, outs, i) ==
    [k \in DOMAIN ns |->
        IF ns[k].id \in Range(ch) /\ outs /= <<>>
        THEN [ns[k] EXCEPT !.output = outs[Len(outs)]] ELSE ns[k]]

\* app.rs lines 35-41, from position i of the chain on: node.output =
\* outputs.get(i).cloned().unwrap_or_default() for the node found.
RECURSIVE StoreOutputs(_, _, _, _)
StoreOutputs(ns, ch, outs, i) ==
    IF i > Len(ch) THEN ns
    ELSE LET k == NodeIndex(ns, ch[i])
             v == IF i \in DOMAIN outs THEN outs[i] ELSE <<>>
         IN  StoreOutputs(IF k = 0 THEN ns ELSE [ns EXCEPT ![k].output = v],
                          ch, outs, i + 1)

\* app.rs lines 34-43: Ok(outputs).
RunOk ==
    /\ apc = "run"
    /\ epc = "ok"
    /\ nodes' = StoreOutputs(nodes, chain, result.outputs, 1)
    /\ pipeline_output' =
          Text(IF result.outputs = <<>> THEN <<>>
               ELSE result.outputs[Len(result.outputs)])
    /\ HandlerReturns
    /\ UNCHANGED <<connections, next_id, selected_node, connection_start, events>>

\* Variant: a failed run also drops the selection.
RunErrDeselects ==
    /\ apc = "run"
    /\ epc = "err"
    /\ pipeline_output' = ErrString(result)
    /\ selected_node' = 0
    /\ HandlerReturns
    /\ UNCHANGED <<graphVars, next_id, connection_start, events>>

\* Variant: a failed run clears the output of every node.
RunErrClearsOutputs ==
    /\ apc = "run"
    /\ epc = "err"
    /\ pipeline_output' = ErrString(result)
    /\ nodes' = [k \in DOMAIN nodes |-> [nodes[k] EXCEPT !.output = <<>>]]
    /\ HandlerReturns
    /\ UNCHANGED <<connections, next_id, selected_node, connection_start, events>>

\* app.rs line 44: Err(e).
RunErr ==
    /\ apc = "run"
    /\ epc = "err"
    /\ pipeline_output' = ErrString(result)
    /\ HandlerReturns
    /\ UNCHANGED <<graphVars, next_id, selected_node, connection_start, events>>

\* PipelineApp::default.
Init ==
    /\ nodes = <<>>
    /\ connections = <<>>
    /\ next_id = 1
    /\ selected_node = 0
    /\ connection_start = 0
    /\ pipeline_output = Text(<<>>)
    /\ apc = "ui"
    /\ events = 0
    /\ ResolverOff
    /\ EngineOff

Next ==
    \/ AddNode
    \/ AddPreset
    \/ ClickNode
    \/ ClickHandle
    \/ PressEscape
    \/ EditCommand
    \/ DeleteSelectedNode
    \/ RunPipeline
    \/ ResolveBegin
    \/ WalkStep
    \/ WalkEnd
    \/ RunNoChain
    \/ RunCollect
    \/ RunBegin
    \/ EngineSpawn
    \/ EngineSpawnFail
    \/ EngineWrite
    \/ EngineWriteFail
    \/ EngineCloseStdin
    \/ EngineReadStdout
    \/ EngineReadStderr
    \/ EngineReap
    \/ EngineWaitFail
    \/ ChildCopy
    \/ ChildEmit
    \/ ChildErr
    \/ ChildExit
    \/ RunOk
    \/ RunErr

Spec == Init /\ [][Next]_vars

\* An editing session in which the pipeline is never run.
NextEdit ==
    \/ AddNode
    \/ AddPreset
    \/ ClickNode
    \/ ClickHandle
    \/ PressEscape
    \/ EditCommand
    \/ DeleteSelectedNode

SpecEdit == Init /\ [][NextEdit]_vars


\* ------------------------------------------------- properties of the resolver
Returned == rpc = "some"
Resolved == rpc \in {"walk", "some"}

HasEdge(a, b) == \E i \in DOMAIN connections : connections[i] = Conn(a, b)

InDegree(n) == Cardinality({i \in DOMAIN connections : connections[i].to = n})

ZeroInDegree == {i \in DOMAIN nodes : InDegree(nodes[i].id) = 0}

IsPrefix(s, t) == Len(s) <= Len(t) /\ \A i \in DOMAIN s : s[i] = t[i]

\* The orderings p of all the nodes for which the connection list is exactly
\* p[1]->p[2]->...->p[k], each edge stored once, in any storage order.
PathOrders ==
    IF nodes = <<>> \/ Len(connections) /= Len(nodes) - 1 THEN {}
    ELSE {p \in [DOMAIN nodes -> Ids(nodes)] :
            /\ NoDup(p)
            /\ Range(connections) = {Conn(p[i], p[i + 1]) : i \in 1..(Len(nodes) - 1)}}

\* The directed cycles of the graph that no edge enters from outside, as the
\* sequences of their nodes.
ClosedCycles ==
    {p \in SeqsUpTo(Ids(nodes), Len(nodes)) :
        /\ Len(p) >= 1
        /\ NoDup(p)
        /\ \A i \in DOMAIN p : HasEdge(p[i], p[(i % Len(p)) + 1])
        /\ \A i \in DOMAIN connections :
              connections[i].to \in Range(p) => connections[i].from \in Range(p)}

\* C2: when a cycle is reachable from the start node the walk stops at the
\* point of revisit: no node identity is ever pushed onto the chain a second
\* time, neither during the walk nor in the chain returned.
C2_WalkStopsAtRevisit == Resolved => NoDup(chain)

\* C5: every chain returned has no repeated identity, and each consecutive
\* pair of it is an edge of the graph.
C5_ChainIsSimpleEdgePath ==
    Returned =>
        /\ NoDup(chain)
        /\ \A i \in 1..(Len(chain) - 1) : HasEdge(chain[i], chain[i + 1])

C5_Witness == Returned /\ Len(chain) >= 3

\* C6: on a graph that is one simple path n1->...->nk and nothing else, the
\* resolver finds a start, walks only along the path and returns [n1,...,nk].
C6_SimplePathResolved ==
    \A p \in PathOrders :
        /\ rpc /= "none"
        /\ rpc = "walk" => IsPrefix(chain, p)
        /\ Returned => chain = p

C6_Witness ==
    /\ Returned
    /\ PathOrders /= {}
    /\ Len(chain) = 3
    /\ chain[1] > chain[2]
    /\ connections[1].from /= chain[1]

\* C7: with no edges the chain returned is the first node of the list alone;
\* with no nodes the result is None.
C7_NoEdges ==
    connections = <<>> =>
        /\ nodes = <<>> => rpc \in {"idle", "none"}
        /\ nodes /= <<>> =>
              /\ rpc /= "none"
              /\ Resolved => chain = <<nodes[1].id>>

C7_Witness == Returned /\ connections = <<>> /\ Len(nodes) >= 2

OnClosedCycles == UNION {Range(p) : p \in ClosedCycles}

C9_StartIsFirstZeroInDegree ==
    /\ Resolved =>
          /\ ZeroInDegree /= {}
          /\ \E s \in ZeroInDegree :
                /\ \A j \in ZeroInDegree : s <= j
                /\ chain[1] = nodes[s].id
                /\ \A j \in ZeroInDegree \ {s} : nodes[j].id \notin Range(chain)
    /\ rpc /= "idle" => (rpc = "none" <=> ZeroInDegree = {})

C9_Witness ==
    /\ Returned
    /\ Cardinality(ZeroInDegree) >= 2
    /\ Len(chain) >= 2

\* C15: get_pipeline_chain is pure. No step of a call changes the node list
\* (its identities, commands and outputs), the edge list, the identity
\* counter, the selection, the pending connection or the final-output
\* panel; what a call builds (the two maps, the chain, the cursor) is local
\* to it and starts empty.
C15_ResolveChainIsPure ==
    [][/\ UNCHANGED <<nodes, connections, next_id, selected_node,
                      connection_start, pipeline_output>>
       /\ rpc = "idle" => incoming = EmptyMap /\ outgoing = EmptyMap /\ chain = <<>>]_vars

C15_Witness ==
    /\ Returned
    /\ Len(chain) >= 2
    /\ Len(connections) >= 2

\* The place in the edge list of the last edge leaving n (0: none leaves it).
LastOutIndex(cs, n) ==
    LET outs == {i \in DOMAIN cs : cs[i].from = n}
    IN  IF outs = {} THEN 0 ELSE CHOOSE i \in outs : \A j \in outs : i >= j

\* The identities met from n on by going, at each node, along the last edge
\* that leaves it, for at most `fuel` edges.
RECURSIVE Follow(_, _, _)
Follow(cs, n, fuel) ==
    IF fuel = 0 \/ LastOutIndex(cs, n) = 0 THEN <<n>>
    ELSE <<n>> \o Follow(cs, cs[LastOutIndex(cs, n)].to, fuel - 1)

\* The result as a function of the node sequence and the edge sequence alone:
\* the empty sequence for None, otherwise the chain from the first node (in
\* list order) that no edge enters.
ResultOf(ns, cs) ==
    LET free == {i \in DOMAIN ns : \A j \in DOMAIN cs : cs[j].to /= ns[i].id}
    IN  IF free = {} THEN <<>>
        ELSE Follow(cs, ns[CHOOSE i \in free : \A j \in free : i <= j].id, MaxChain)

\* C25: every step of the walk goes from a node to the target of the last
\* edge, in storage order, that leaves it, whatever the node's earlier
\* outgoing edges name.
C25_LastOutgoingEdgeIsFollowed ==
    Resolved =>
        \A i \in 1..(Len(chain) - 1) :
            /\ LastOutIndex(connections, chain[i]) /= 0
            /\ chain[i + 1] = connections[LastOutIndex(connections, chain[i])].to

\* A node of the chain has two outgoing edges with different targets, and
\* the target of the earlier one is not in the chain.
C25_Witness ==
    /\ Returned
    /\ \E i, j \in DOMAIN connections :
          /\ i < j
          /\ connections[i].from = chain[1]
          /\ connections[j].from = chain[1]
          /\ connections[i].to /= connections[j].to
          /\ connections[i].to \notin Range(chain)

\* C30: the result of a call is the value of a function of the node sequence
\* and the edge sequence: None exactly when that function gives none, and
\* otherwise its chain, built front to back.
C30_ResultIsFunctionOfInput ==
    /\ rpc = "none" => ResultOf(nodes, connections) = <<>>
    /\ rpc = "walk" => IsPrefix(chain, ResultOf(nodes, connections))
    /\ rpc = "some" => chain = ResultOf(nodes, connections)

\* Several nodes could start the chain and several edges leave its start.
C30_Witness ==
    /\ Returned
    /\ Cardinality(ZeroInDegree) >= 2
    /\ Len(chain) >= 2
    /\ Cardinality({i \in DOMAIN connections : connections[i].from = chain[1]}) >= 2

\* C21: on any node list and any edge list a chain holds only identities of
\* nodes of the node list, while it is built and when it is returned.
C21_ChainHoldsOnlyNodes == Resolved => Range(chain) \subseteq Ids(nodes)

\* --------------------------------------------------- properties of the engine
Finished == epc \in {"ok", "err"}

\* Every stage after the first consumes its input.
LaterStagesRead == \A i \in 2..Len(commands) : Program(commands[i]).reads

\* The engine is inside write_all with the stdin pipe full, and the child has
\* input to copy but its stdout pipe is full: neither can take a step.
WriteWriteBlocked ==
    /\ epc = "write"
    /\ towrite /= <<>>
    /\ Len(stdinPipe) = PipeCap
    /\ Child.state = "running"
    /\ Program(Child.cmd).reads
    /\ Len(stdoutPipe) = PipeCap

\* C1: with children that consume their input, the engine is never blocked
\* writing stdin while the child is blocked writing stdout, and a run that
\* has not returned can always take a step.
C1_StageMakesProgress ==
    LaterStagesRead =>
        /\ ~WriteWriteBlocked
        /\ Finished \/ ENABLED NextEngine

\* C3: once a stage has exited unsuccessfully no later stage exists, the
\* engine does not go on to spawn or to succeed, it is not stuck before it
\* returns, and when that stage has been waited for the run has returned a
\* failure.
C3_NoStageAfterFailure ==
    \A k \in DOMAIN procs :
        (procs[k].state = "exited" /\ procs[k].exit /= 0) =>
            /\ Len(procs) = k
            /\ stage = k
            /\ epc \in {"write", "wait", "err"}
            /\ epc /= "err" => ENABLED NextEngine
            /\ procs[k].reaped => (epc = "err" /\ result.tag = "Err")

C3_Witness ==
    /\ epc = "err"
    /\ result.kind = "status"
    /\ Len(commands) = 3
    /\ Len(procs) = 2
    /\ procs[2].exit /= 0

\* C4: a run that failed on a stage's exit status returns as its failure
\* value the text that stage wrote to its standard error.
C4_FailureIsStderrText ==
    (epc = "err" /\ result.kind = "status") =>
        result.text = FromUtf8Lossy(Child.err)

\* C10: a successful run on n commands returns n outputs, the i-th being the
\* decoded standard output of the process that ran the i-th command.
C10_OneOutputPerStage ==
    epc = "ok" =>
        /\ result.tag = "Ok"
        /\ Len(result.outputs) = Len(commands)
        /\ Len(procs) = Len(commands)
        /\ \A i \in DOMAIN commands :
              /\ procs[i].cmd = commands[i]
              /\ result.outputs[i] = FromUtf8Lossy(procs[i].out)

C10_Witness ==
    /\ epc = "ok"
    /\ Len(commands) = 3
    /\ result.outputs[1] /= result.outputs[2]
    /\ result.outputs[2] /= result.outputs[3]

\* C11: what the engine writes to the standard input of stage i+1 is the byte
\* sequence stage i wrote to its standard output: a prefix of it while the
\* write is under way, the whole of it once the write has finished.
C11_InputIsPreviousOutput ==
    \A k \in 2..Len(procs) :
        /\ IsPrefix(procs[k].fed, procs[k - 1].out)
        /\ (k < Len(procs) \/ epc \in {"wait", "ok"}) => procs[k].fed = procs[k - 1].out

\* The run has failed because the shell of commands[stage] could not be started.
SpawnFailed == epc = "err" /\ result.kind = "spawn" /\ Len(procs) = stage - 1

\* C13: when the shell of stage k cannot be spawned the run returns a failure
\* naming the command and the OS error, with no outputs of earlier stages;
\* nothing follows: no later stage is spawned and the stage is not retried.
C13_SpawnFailureAborts ==
    SpawnFailed =>
        /\ result.tag = "Err"
        /\ result.cmd = commands[stage]
        /\ result.oserr \in OsErrors
        /\ result.outputs = <<>>
        /\ ~ENABLED NextEngine

C13_Witness ==
    /\ SpawnFailed
    /\ stage = 2
    /\ commands[1] /= commands[2]
    /\ intermediate_outputs /= <<>>

\* C14: on the empty command list the run succeeds with an empty output list
\* and no process is ever spawned.
C14_EmptyListSucceeds ==
    commands = <<>> =>
        /\ procs = <<>>
        /\ epc \in {"idle", "ok"}
        /\ epc = "ok" => result = Ok(<<>>)

C14_Witness == commands = <<>> /\ epc = "ok" /\ result.tag = "Ok"

C23_InputWrittenAndClosedBeforeWait ==
    /\ (epc = "wait" /\ stage > 1) =>
          /\ ~stdinOpen
          /\ towrite = <<>>
          /\ Child.fed = AsBytes(intermediate_outputs[stage - 1])
    /\ \A k \in 2..Len(procs) :
          procs[k].reaped =>
              /\ procs[k].fed = AsBytes(intermediate_outputs[k - 1])
              /\ k = Len(procs) => ~stdinOpen

C23_Witness ==
    /\ epc = "wait"
    /\ stage = 3
    /\ Child.state = "running"
    /\ Program(Child.cmd).reads
    /\ Child.fed /= <<>>
    /\ stdinPipe /= <<>>

\* The children that have been spawned and not waited for.
Unreaped == {k \in DOMAIN procs : ~procs[k].reaped}

\* C24: when a stage is spawned, and from then on, every earlier child has
\* exited and been waited for; between two stages no pipe is open or holds
\* data; so at most one child is alive or unreaped at any point of a run.
C24_OneChildAtATime ==
    /\ \A k \in 1..(Len(procs) - 1) : procs[k].state = "exited" /\ procs[k].reaped
    /\ epc = "spawn" =>
          /\ \A k \in DOMAIN procs : procs[k].state = "exited" /\ procs[k].reaped
          /\ ~stdinOpen
          /\ stdinPipe = <<>> /\ stdoutPipe = <<>> /\ stderrPipe = <<>>
    /\ Cardinality({k \in DOMAIN procs : procs[k].state = "running"}) <= 1
    /\ Cardinality(Unreaped) <= 1

C24_Witness ==
    /\ epc = "wait"
    /\ Len(procs) = 3
    /\ Child.state = "running"
    /\ procs[1].reaped
    /\ procs[2].reaped

\* Every child spawned so far has exited with a successful status.
AllExitedWell ==
    \A k \in DOMAIN procs : procs[k].state = "exited" /\ procs[k].exit = 0

\* The operating system refused a spawn or failed to deliver an exit status.
OsFailed == epc = "err" /\ result.kind \in {"spawn", "wait"}

\* C27: a run in which every stage was spawned and exited successfully
\* returns success with one output per stage, whether or not a stage read
\* the input supplied to it.
C27_SuccessfulStagesGiveSuccess ==
    (Finished /\ AllExitedWell /\ ~OsFailed) =>
        /\ epc = "ok"
        /\ Len(result.outputs) = Len(commands)

\* C28: when the run has returned, with success or with any failure, every
\* child it spawned has been waited for (a wait the operating system failed
\* counts as made).
C28_EveryChildWaitedFor ==
    (Finished /\ ~OsFailed) => Unreaped = {}

\* --------------------------------------------------- properties of the editor
\* A pipeline run is in progress: its first stage has been spawned and
\* run_pipeline_with_intermediates has not returned.
RunInProgress == procs /= <<>> /\ epc \in {"spawn", "write", "wait"}

\* C12: while a run is in progress the event loop is free to take other
\* events, and nothing of the run's result has reached the caller yet.
C12_UiFreeDuringRun ==
    RunInProgress => UiFree /\ result = NoResult

\* The node of an identity (the identity is held by a node of ns).
NodeOf(ns, id) == ns[NodeIndex(ns, id)]

IdSeq(ns) == [i \in DOMAIN ns |-> ns[i].id]

Touches(c, id) == c.from = id \/ c.to = id

\* C16: both endpoints of every stored edge are identities of existing
\* nodes, and a step that removes a node leaves no edge touching it.
C16_EdgesJoinExistingNodes ==
    /\ [](\A i \in DOMAIN connections :
            connections[i].from \in Ids(nodes) /\ connections[i].to \in Ids(nodes))
    /\ [][\A id \in Ids(nodes) \ Ids(nodes') :
             \A i \in DOMAIN connections' : ~Touches(connections'[i], id)]_vars

\* A node has been deleted and an edge between two other nodes is stored.
C16_Witness ==
    /\ Len(nodes) < next_id - 1
    /\ connections /= <<>>
    /\ selected_node = 0

\* C17: identities are unique and below next_id; a step keeps the identities
\* of the nodes it keeps, in their order; next_id never decreases, and the
\* only identity a step adds is the next_id it then advances past.
C17_IdentitiesUniqueAndNeverReused ==
    /\ [](NoDup(IdSeq(nodes)) /\ \A id \in Ids(nodes) : id < next_id)
    /\ [][/\ next_id' >= next_id
           /\ Ids(nodes') \ Ids(nodes) \subseteq {next_id}
           /\ Ids(nodes') \ Ids(nodes) /= {} => next_id' > next_id
           /\ LET Kept(id) == id \in Ids(nodes')
                  Old(id)  == id \in Ids(nodes)
              IN  SelectSeq(IdSeq(nodes), Kept) = SelectSeq(IdSeq(nodes'), Old)]_vars

\* A node was deleted and the newest node came after the deletion's gap.
C17_Witness ==
    /\ Len(nodes) = 2
    /\ next_id = 4
    /\ nodes[2].id = 3

\* The RunPipeline handler is about to return from its Ok branch.
RunSucceeds == apc = "run" /\ epc = "ok"

\* The step is the return of the RunPipeline handler.
RunReturns == apc = "run" /\ apc' = "ui"

\* C18 as stated: every pipeline run overwrites the output of every node.
C18_EveryRunOverwrites ==
    [][RunReturns =>
          \A k \in DOMAIN nodes' : nodes'[k].output \in Range(result.outputs)]_vars

\* C18, amended: a node is created with an empty output; its output is
\* written by every successful run whose chain contains it, and by nothing
\* else (a failed run, or a run whose chain leaves the node out, keeps it).
C18_OutputWrittenBySuccessfulRuns ==
    [][/\ \A id \in Ids(nodes') \ Ids(nodes) : NodeOf(nodes', id).output = <<>>
       /\ \A id \in Ids(nodes') \cap Ids(nodes) :
             IF RunSucceeds /\ id \in Range(chain)
             THEN NodeOf(nodes', id).output \in Range(result.outputs)
             ELSE NodeOf(nodes', id).output = NodeOf(nodes, id).output]_vars

\* A failed run has returned and a node still holds an earlier run's output.
C18_Witness ==
    /\ apc = "ui"
    /\ pipeline_output.kind /= "text"
    /\ \E k \in DOMAIN nodes : nodes[k].output /= <<>>

\* C19: when RunPipeline succeeds there is one command and one output per
\* chain position, the node at position i is left holding output i, and the
\* final-output panel holds the last output.
C19_OutputsStoredByPosition ==
    [][RunSucceeds =>
          /\ Len(commands) = Len(chain)
          /\ Len(result.outputs) = Len(chain)
          /\ \A i \in DOMAIN chain :
                /\ commands[i] = NodeOf(nodes, chain[i]).command
                /\ NodeOf(nodes', chain[i]).output = result.outputs[i]
          /\ pipeline_output' = Text(result.outputs[Len(chain)])]_vars

\* A two-stage run has succeeded with different outputs at its two stages.
C19_Witness ==
    /\ apc = "ui"
    /\ Len(nodes) = 2
    /\ connections = <<Conn(nodes[1].id, nodes[2].id)>>
    /\ nodes[1].output = <<>>
    /\ nodes[2].output /= <<>>
    /\ pipeline_output = Text(nodes[2].output)

\* C20: when get_pipeline_chain returns None no process has been spawned, and
\* the handler returns to the event loop with "No valid pipeline chain
\* found." in the panel and the graph as it was.
C20_NoChainIsReported ==
    /\ [](rpc = "none" => procs = <<>> /\ epc \in {"off", "idle"})
    /\ [][apc = "run" /\ rpc = "none" =>
             /\ pipeline_output' = NoChainFound
             /\ apc' = "ui"
             /\ UNCHANGED <<nodes, connections, next_id, selected_node,
                            connection_start>>]_vars

\* A run succeeds while the panel still shows the failed resolution of an
\* earlier RunPipeline: the graph was edited in between.
C20_Witness ==
    /\ RunSucceeds
    /\ pipeline_output = NoChainFound
    /\ result.outputs /= <<>>

\* C26: the chain holds exactly the nodes met from the start node by
\* following the successor mapping; the run is given the commands of the
\* chain's nodes, position by position, and every process it spawns runs the
\* command of the chain node at its position, so no process belongs to a
\* node outside the chain.
C26_OnlyChainedNodesRun ==
    /\ rpc = "some" =>
          /\ Range(chain) = Range(ResultOf(nodes, connections))
          /\ NoDup(chain)
          /\ chain[1] = ResultOf(nodes, connections)[1]
    /\ (apc = "run" /\ epc /= "off") =>
          /\ Len(commands) = Len(chain)
          /\ Len(procs) <= Len(chain)
          /\ \A k \in DOMAIN procs : procs[k].cmd = NodeOf(nodes, chain[k]).command

\* A run has succeeded on a chain of two nodes while a third node, with a
\* command of its own, is outside the chain.
C26_Witness ==
    /\ RunSucceeds
    /\ Len(chain) = 2
    /\ Len(procs) = 2
    /\ \E k \in DOMAIN nodes :
          /\ nodes[k].id \notin Range(chain)
          /\ nodes[k].command \notin Range(commands)

\* The RunPipeline handler is about to return a failure: no chain was
\* found, or the engine returned Err.
RunFails == apc = "run" /\ (rpc = "none" \/ epc = "err")

\* C29: no step of a RunPipeline command that ends in failure changes the
\* node list (identities, commands, outputs), the edge list, the selection,
\* the pending connection or next_id; its last step puts the failure into
\* the final-output panel.
C29_FailedRunChangesOnlyThePanel ==
    [][/\ (apc = "run" /\ ~RunSucceeds) =>
             UNCHANGED <<nodes, connections, selected_node, connection_start, next_id>>
       /\ RunFails =>
             /\ apc' = "ui"
             /\ pipeline_output' = (IF rpc = "none" THEN NoChainFound
                                                    ELSE ErrString(result))]_vars

\* A failed run has returned: the panel shows its message, a node is still
\* selected and the nodes still hold the outputs of an earlier run.
C29_Witness ==
    /\ apc = "ui"
    /\ pipeline_output.kind \in {"spawn", "wait", "stdin"}
    /\ selected_node /= 0
    /\ connections /= <<>>
    /\ \A k \in DOMAIN nodes : nodes[k].output /= <<>>

\* C31: the selection and the pending connection each name no node or a
\* node of the node list.
C31_SelectionAndStartNameNodes ==
    /\ selected_node \in {0} \cup Ids(nodes)
    /\ connection_start \in {0} \cup Ids(nodes)

\* A node has been deleted; one of the remaining nodes is selected and
\* another starts a pending connection.
C31_Witness ==
    /\ Len(nodes) < next_id - 1
    /\ selected_node /= 0
    /\ connection_start /= 0
    /\ selected_node /= connection_start

\* C32: no stored edge joins a node to itself; a step that adds an edge adds
\* one edge, from the node that started the pending connection to another
\* existing node, and clears the pending connection.
C32_NoSelfLoop ==
    /\ [](\A i \in DOMAIN connections : connections[i].from /= connections[i].to)
    /\ [][Len(connections') > Len(connections) =>
             /\ connection_start /= 0
             /\ connection_start' = 0
             /\ \E id \in Ids(nodes) \ {connection_start} :
                   connections' = Append(connections, Conn(connection_start, id))]_vars

\* Two nodes are connected in both directions and nothing is pending.
C32_Witness ==
    /\ Len(connections) = 2
    /\ connections[1].from = connections[2].to
    /\ connections[1].to = connections[2].from
    /\ connection_start = 0

====
